---- MODULE Spec2Model ----
(***************************************************************************)
(* find_low_res_images.py: scan a directory tree for images, classify each *)
(* against the 4K threshold, report, optionally delete the low-resolution  *)
(* ones and move the remaining ones to a destination directory.            *)
(*                                                                         *)
(* The file system is part of the state: fs maps every existing file path  *)
(* <<directory, name>> to its content, dirs is the set of existing         *)
(* directories. pc is main's position.                                     *)
(***************************************************************************)
EXTENDS Integers, Sequences, FiniteSets, TLC

VARIABLES
    fs,                 \* existing files: path -> [res, size]
    dirs,               \* existing directories
    pc,                 \* position of main
    exit_code,          \* -1 while running, then the process exit code
    auto_delete,        \* args.auto_delete
    image_files,        \* find_low_res_images: the collected paths
    scan_i,             \* find_low_res_images: index of the analysis loop
    low_res_images,     \* list of records below 4K
    all_images,         \* list of all records read
    resolution_stats,   \* "WxH" -> count
    del_i,              \* delete_images: loop index
    deleted_count,      \* delete_images
    del_failed_count,   \* delete_images: failed_count
    total_size_freed,   \* delete_images
    deleted_images,     \* delete_images: the returned list
    high_res_images,    \* main: all_images minus the deleted paths
    dest_path,          \* move_high_res_images: chosen destination, "" before
    mv_i,               \* move loop index
    moved_count, failed_count, skipped_count, overwritten_count,
    overwrite_all,      \* the sticky flag
    cl_i,               \* clean-up loop index
    cleaned_dirs,       \* clean-up: list of removed directories
    rm_failed,          \* history: the directories whose rmdir raised
    fs0,                \* history: the file system when the program started
    dirs0,              \* history: the directories when the program started
    asked,              \* history: the prompts shown so far
    stages,             \* history: the stages main has entered, in order
    unlink_log,         \* history: <<record, succeeded>> of every unlink call
    last                \* history: what the latest step did

vars == <<fs, dirs, pc, exit_code, auto_delete, image_files, scan_i,
          low_res_images, all_images, resolution_stats, del_i, deleted_count,
          del_failed_count, total_size_freed, deleted_images, high_res_images,
          dest_path, mv_i, moved_count, failed_count, skipped_count,
          overwritten_count, overwrite_all, cl_i, cleaned_dirs, rm_failed, fs0, dirs0,
          asked, stages, unlink_log, last>>

----------------------------------------------------------------------------
(* Program constants *)

MIN_4K_WIDTH == 3840
MIN_4K_HEIGHT == 2160

----------------------------------------------------------------------------
(* Bounds of the model *)

\* At most this many image files in the scanned tree.
MaxFiles == 3

\* The scanned tree: the root, a subdirectory and a subdirectory of that one.
ROOT == "root"
SrcDirs == {"root", "root/A", "root/A/B"}
\* The destination the user may name: a directory outside the tree, and a
\* path that exists but is a regular file.
DEST == "dest"
NOTADIR == "file.txt"

Parent(d) == CASE d = "root/A/B" -> "root/A"
               [] d = "root/A"   -> "root"
               [] OTHER          -> ""

\* Depth of a directory below the root: rglob walks top-down.
Depth(d) == CASE d = "root" -> 0 [] d = "root/A" -> 1 [] d = "root/A/B" -> 2 [] OTHER -> 0

\* Path.suffix of the file names a.jpg, b.PNG and notes.txt
Suffix(n) == CASE n = "a.jpg" -> ".jpg" [] n = "b.PNG" -> ".PNG" [] OTHER -> ".txt"

\* str.lower on these suffixes
Lower(x) == CASE x = ".PNG" -> ".png" [] OTHER -> x

IMAGE_EXTENSIONS == {".jpg", ".jpeg", ".png", ".gif", ".bmp", ".tiff", ".tif",
                     ".webp", ".svg", ".ico"}

\* The paths at which the scanned tree may hold a file when the program starts.
SrcPaths == {<<"root", "a.jpg">>, <<"root", "b.PNG">>,
             <<"root/A", "a.jpg">>, <<"root/A/B", "b.PNG">>}

\* res = <<>> is a file PIL cannot open (get_image_resolution returns None).
NoRes == <<>>
Content(w, h, s) == [res |-> <<w, h>>, size |-> s]
Corrupt == [res |-> NoRes, size |-> 1]

\* What a file of the tree may hold in the runs of the whole pipeline: an image
\* below 4K, and two 4K images of the same dimensions and different sizes.
SrcContents == { Content(3840, 2159, 1), Content(3840, 2160, 1), Content(3840, 2160, 2) }

\* What the destination's a.jpg may hold before the run: one of the two 4K
\* images above, an image of the same size and other dimensions, or no image.
DestContents == { Content(3840, 2160, 1), Content(4000, 2160, 1), Corrupt }

\* What a file may hold in the runs that exercise the scan: every combination
\* of widths and heights around the threshold, or no image.
ScanWidths == {1920, 3839, 3840, 4000}
ScanHeights == {1000, 2159, 2160}
ScanContents == { Content(w, h, 1) : w \in ScanWidths, h \in ScanHeights } \cup {Corrupt}
ScanPaths == {<<"root", "a.jpg">>, <<"root/A", "b.PNG">>}

----------------------------------------------------------------------------
(* Pure helpers *)

\* is_below_4k with "and" for "or"
is_below_4k_And(width, height) == width < MIN_4K_WIDTH /\ height < MIN_4K_HEIGHT

\* is_below_4k
is_below_4k(width, height) == width < MIN_4K_WIDTH \/ height < MIN_4K_HEIGHT

\* format_resolution: f"{width}x{height}"
format_resolution(width, height) == ToString(width) \o "x" \o ToString(height)

\* get_image_resolution: the size PIL reads, NoRes when the open fails or the
\* file does not exist.
get_image_resolution(f, p) == IF p \in DOMAIN f THEN f[p].res ELSE NoRes

\* Path.exists for a file path
file_exists(f, p) == p \in DOMAIN f

\* is_image_file
is_image_file(p) == Lower(Suffix(p[2])) \in IMAGE_EXTENSIONS

dir_of(p) == p[1]
name_of(p) == p[2]

\* input(...).strip().lower() on the answers the model types
RawAnswers == {"y", " YES ", "n", "No", "", " A", "maybe"}
StripLower(s) == CASE s = " YES " -> "yes"
                   [] s = "No"    -> "no"
                   [] s = " A"    -> "a"
                   [] OTHER       -> s

Range(s) == { s[i] : i \in DOMAIN s }

\* Sequences over S without repetition that list exactly the set S
RECURSIVE Orders(_)
Orders(S) == IF S = {} THEN { <<>> }
             ELSE UNION { { <<x>> \o t : t \in Orders(S \ {x}) } : x \in S }

\* directory.rglob("*"): the directories top-down, the entries of one
\* directory in the order the operating system lists them (any order).
WalkOrders(f) ==
    { o \in Orders({ p \in DOMAIN f : dir_of(p) \in SrcDirs /\ is_image_file(p) }) :
        \A i, j \in DOMAIN o : i < j => Depth(dir_of(o[i])) <= Depth(dir_of(o[j])) }

\* list.sort(key=width*height): stable insertion by pixel area
RECURSIVE SortByArea(_)
InsertByArea(s, r) ==
    LET key(x) == x.width * x.height
        k == Cardinality({ i \in DOMAIN s : key(s[i]) <= key(r) })
    IN  SubSeq(s, 1, k) \o <<r>> \o SubSeq(s, k + 1, Len(s))
SortByArea(s) == IF s = <<>> THEN <<>>
                 ELSE InsertByArea(SortByArea(SubSeq(s, 1, Len(s) - 1)), s[Len(s)])

\* One scanned record (image_info)
Rec(p, c) == [path |-> p, width |-> c.res[1], height |-> c.res[2], size |-> c.size]

\* resolution_stats[res_key] += 1 on a defaultdict(int)
Bump(stats, key) ==
    [ k \in DOMAIN stats \cup {key} |->
        IF k = key THEN (IF k \in DOMAIN stats THEN stats[k] ELSE 0) + 1 ELSE stats[k] ]

\* dict restricted to the keys other than p (a file removed or moved away)
Without(f, p) == [ q \in DOMAIN f \ {p} |-> f[q] ]

\* f with the file at p set to content c
With(f, p, c) == [ q \in DOMAIN f \cup {p} |-> IF q = p THEN c ELSE f[q] ]

NoStep == [op |-> "none"]

----------------------------------------------------------------------------
(* Initial states: the tree and the destination before the program runs *)

\* A text file: rglob lists it, is_image_file drops it.
NOTES == <<"root/A", "notes.txt">>

\* Every way to put at most n files at paths of P with contents of C
Trees(P, C, n) == UNION { [S -> C] : S \in { T \in SUBSET P : Cardinality(T) <= n } }

\* The destinations: none, an empty directory, or one holding a.jpg
DestFS == { << >> } \cup { [ p \in {<<DEST, "a.jpg">>} |-> c ] : c \in DestContents }

\* The directories of a tree: the root, and every directory that holds a file
\* or a directory of the tree
RECURSIVE Ancestors(_)
Ancestors(d) == IF d \in SrcDirs THEN {d} \cup Ancestors(Parent(d)) ELSE {}
TreeDirs(tree) == {ROOT} \cup UNION { Ancestors(dir_of(p)) : p \in DOMAIN tree }

Start(tree, d, destThere) ==
    /\ fs = IF destThere THEN tree @@ d ELSE tree
    /\ dirs = TreeDirs(tree) \cup (IF destThere THEN {DEST} ELSE {})
    /\ auto_delete \in BOOLEAN
    /\ pc = "start"
    /\ exit_code = -1
    /\ image_files = <<>>
    /\ scan_i = 1
    /\ low_res_images = <<>>
    /\ all_images = <<>>
    /\ resolution_stats = <<>>
    /\ del_i = 1
    /\ deleted_count = 0
    /\ del_failed_count = 0
    /\ total_size_freed = 0
    /\ deleted_images = <<>>
    /\ high_res_images = <<>>
    /\ dest_path = ""
    /\ mv_i = 1
    /\ moved_count = 0
    /\ failed_count = 0
    /\ skipped_count = 0
    /\ overwritten_count = 0
    /\ overwrite_all = FALSE
    /\ cl_i = 1
    /\ cleaned_dirs = <<>>
    /\ rm_failed = {}
    /\ fs0 = fs
    /\ dirs0 = dirs
    /\ asked = {}
    /\ stages = <<>>
    /\ unlink_log = <<>>
    /\ last = NoStep

\* The runs of the whole pipeline
Init ==
    \E tree \in Trees(SrcPaths, SrcContents, MaxFiles), d \in DestFS, destThere \in BOOLEAN :
        /\ destThere \/ d = << >>
        /\ Start(tree, d, destThere)

\* The runs that exercise the scan: two files of any dimensions beside a
\* text file
InitScan ==
    \E tree \in [ScanPaths -> ScanContents] : Start(With(tree, NOTES, Corrupt), << >>, TRUE)

scanVars == <<image_files, scan_i, low_res_images, all_images, resolution_stats>>
delVars == <<del_i, deleted_count, del_failed_count, total_size_freed, deleted_images,
             unlink_log>>
moveVars == <<dest_path, mv_i, moved_count, failed_count, skipped_count,
              overwritten_count, overwrite_all>>
cleanVars == <<cl_i, cleaned_dirs, rm_failed>>
histVars == <<fs0, dirs0>>

----------------------------------------------------------------------------
(* find_low_res_images *)

\* The first loop: collect the image files of the tree.
Collect ==
    /\ pc = "start"
    /\ image_files' \in WalkOrders(fs)
    /\ pc' = "scan"
    /\ stages' = Append(stages, "SCAN")
    /\ last' = [op |-> "collect"]
    /\ UNCHANGED <<fs, dirs, exit_code, auto_delete, scan_i, low_res_images, all_images,
                   resolution_stats, high_res_images, asked>>
    /\ UNCHANGED <<delVars, moveVars, cleanVars, histVars>>

\* The record the analysis loop builds for file p, and where it is appended.
ScanRecord(p) == Rec(p, fs[p])
ScanLowRes(r) == IF is_below_4k(r.width, r.height)
                 THEN Append(low_res_images, r) ELSE low_res_images

\* One iteration of the analysis loop on a file whose stat() succeeds.
ScanStep ==
    /\ pc = "scan"
    /\ scan_i <= Len(image_files)
    /\ LET p == image_files[scan_i]
           resolution == get_image_resolution(fs, p)
       IN  IF resolution # NoRes
           THEN LET r == ScanRecord(p)
                IN  /\ resolution_stats' =
                          Bump(resolution_stats, format_resolution(r.width, r.height))
                    /\ all_images' = Append(all_images, r)
                    /\ low_res_images' = ScanLowRes(r)
                    /\ last' = [op |-> "scan", path |-> p, read |-> TRUE]
           ELSE /\ UNCHANGED <<resolution_stats, all_images, low_res_images>>
                /\ last' = [op |-> "scan", path |-> p, read |-> FALSE]
    /\ scan_i' = scan_i + 1
    /\ UNCHANGED <<fs, dirs, pc, exit_code, auto_delete, image_files, high_res_images,
                   asked, stages>>
    /\ UNCHANGED <<delVars, moveVars, cleanVars, histVars>>

\* One iteration of the analysis loop on a file that is removed by someone else
\* after PIL read it and before filepath.stat(): stat raises, nothing in
\* find_low_res_images catches it, and the handler under __main__ exits with 1.
ScanStatFails ==
    /\ pc = "scan"
    /\ scan_i <= Len(image_files)
    /\ LET p == image_files[scan_i]
       IN  /\ get_image_resolution(fs, p) # NoRes
           /\ fs' = Without(fs, p)
           /\ last' = [op |-> "scan_crash", path |-> p,
                       left |-> Len(image_files) - scan_i]
    /\ pc' = "exit"
    /\ exit_code' = 1
    /\ UNCHANGED <<dirs, auto_delete, high_res_images, asked, stages>>
    /\ UNCHANGED <<scanVars, delVars, moveVars, cleanVars, histVars>>

\* The loop is over: find_low_res_images returns.
ScanDone ==
    /\ pc = "scan"
    /\ scan_i > Len(image_files)
    /\ pc' = "report"
    /\ stages' = Append(stages, "REPORT")
    /\ last' = [op |-> "scan_done"]
    /\ UNCHANGED <<fs, dirs, exit_code, auto_delete, high_res_images, asked>>
    /\ UNCHANGED <<scanVars, delVars, moveVars, cleanVars, histVars>>

----------------------------------------------------------------------------
(* display_results, and main up to the delete step *)

\* display_results sorts the caller's list in place when it is not empty.
DisplaySort(lst) == IF lst # <<>> THEN SortByArea(lst) ELSE lst

\* main, lines 321-338: report; return 0 when nothing is below 4K; go to the
\* delete loop directly under --auto-delete, to the confirmation otherwise.
DisplayResults ==
    /\ pc = "report"
    /\ low_res_images' = DisplaySort(low_res_images)
    /\ IF low_res_images = <<>>
       THEN /\ pc' = "exit"
            /\ exit_code' = 0
            /\ stages' = Append(stages, "DONE")
       ELSE /\ pc' = IF auto_delete THEN "delete" ELSE "confirm_delete"
            /\ exit_code' = exit_code
            /\ stages' = Append(stages, IF auto_delete THEN "DELETE" ELSE "CONFIRM_DELETE")
    /\ last' = [op |-> "report"]
    /\ UNCHANGED <<fs, dirs, auto_delete, image_files, scan_i, all_images,
                   resolution_stats, high_res_images, asked>>
    /\ UNCHANGED <<delVars, moveVars, cleanVars, histVars>>

\* DeleteYes with the empty answer taken for yes
DeleteYes_DefaultYes(response) == response \in {"y", "yes", ""}

\* The answers of the delete confirmation
DeleteYes(response) == response \in {"y", "yes"}
DeleteNo(response) == response \in {"n", "no", ""}

\* main, lines 343-353: one round of the confirmation loop. A refusal leaves
\* deleted_images empty, so main skips the move and returns 0.
ConfirmDelete ==
    /\ pc = "confirm_delete"
    /\ \E raw \in RawAnswers :
         LET response == StripLower(raw)
         IN  /\ last' = [op |-> "confirm_delete", response |-> response]
             /\ IF DeleteYes(response)
                THEN /\ pc' = "delete"
                     /\ exit_code' = exit_code
                     /\ stages' = Append(stages, "DELETE")
                ELSE IF DeleteNo(response)
                THEN /\ pc' = "exit"
                     /\ exit_code' = 0
                     /\ stages' = Append(stages, "DONE")
                ELSE UNCHANGED <<pc, exit_code, stages>>
    /\ asked' = asked \cup {"delete"}
    /\ UNCHANGED <<fs, dirs, auto_delete, high_res_images>>
    /\ UNCHANGED <<scanVars, delVars, moveVars, cleanVars, histVars>>

----------------------------------------------------------------------------
(* delete_images *)

\* DeletedAfter with the append moved out of the try block
DeletedAfter_Always(lst, img, ok) == Append(lst, img)

\* The list delete_images returns after one more unlink that succeeded or not.
DeletedAfter(lst, img, ok) == IF ok THEN Append(lst, img) ELSE lst

\* One iteration of the loop: unlink succeeds, or raises (ok = FALSE) and the
\* except branch counts the failure.
DeleteStep ==
    /\ pc = "delete"
    /\ del_i <= Len(low_res_images)
    /\ \E ok \in BOOLEAN :
         LET img == low_res_images[del_i]
         IN  /\ ok => file_exists(fs, img.path)
             /\ fs' = IF ok THEN Without(fs, img.path) ELSE fs
             /\ deleted_count' = IF ok THEN deleted_count + 1 ELSE deleted_count
             /\ total_size_freed' = IF ok THEN total_size_freed + img.size
                                          ELSE total_size_freed
             /\ deleted_images' = DeletedAfter(deleted_images, img, ok)
             /\ del_failed_count' = IF ok THEN del_failed_count ELSE del_failed_count + 1
             /\ unlink_log' = Append(unlink_log, <<img, ok>>)
             /\ last' = [op |-> "unlink", rec |-> img, ok |-> ok]
    /\ del_i' = del_i + 1
    /\ UNCHANGED <<dirs, pc, exit_code, auto_delete, high_res_images, asked, stages>>
    /\ UNCHANGED <<scanVars, moveVars, cleanVars, histVars>>

\* main, lines 358-359: the records of all_images whose path was not deleted
Remaining(all, deleted) ==
    LET deleted_paths == { deleted[i].path : i \in DOMAIN deleted }
        keep(img) == img.path \notin deleted_paths
    IN  SelectSeq(all, keep)

\* OfferMove without the test of the remaining list
OfferMove_AnyDeleted(deleted, remaining) == deleted # <<>>

\* main, lines 356-362: whether move_high_res_images is called
OfferMove(deleted, remaining) == deleted # <<>> /\ remaining # <<>>

\* delete_images returns; main computes the remaining images and either calls
\* move_high_res_images or returns 0.
DeleteDone ==
    /\ pc = "delete"
    /\ del_i > Len(low_res_images)
    /\ LET remaining == Remaining(all_images, deleted_images)
       IN  IF OfferMove(deleted_images, remaining)
           THEN /\ high_res_images' = remaining
                /\ pc' = "confirm_move"
                /\ exit_code' = exit_code
                /\ stages' = Append(stages, "CONFIRM_MOVE")
           ELSE /\ high_res_images' = IF deleted_images # <<>> THEN remaining
                                                              ELSE high_res_images
                /\ pc' = "exit"
                /\ exit_code' = 0
                /\ stages' = Append(stages, "DONE")
    /\ last' = [op |-> "delete_done"]
    /\ UNCHANGED <<fs, dirs, auto_delete, asked>>
    /\ UNCHANGED <<scanVars, delVars, moveVars, cleanVars, histVars>>

----------------------------------------------------------------------------
(* move_high_res_images *)

MoveYes(response) == response \in {"y", "yes"}

\* Lines 183-187: the move confirmation.
ConfirmMove ==
    /\ pc = "confirm_move"
    /\ \E raw \in RawAnswers :
         LET response == StripLower(raw)
         IN  /\ last' = [op |-> "confirm_move", response |-> response]
             /\ IF MoveYes(response)
                THEN /\ pc' = "dest_prompt"
                     /\ UNCHANGED <<exit_code, stages>>
                ELSE /\ pc' = "exit"
                     /\ exit_code' = 0
                     /\ stages' = Append(stages, "DONE")
    /\ asked' = asked \cup {"move"}
    /\ UNCHANGED <<fs, dirs, auto_delete, high_res_images>>
    /\ UNCHANGED <<scanVars, delVars, moveVars, cleanVars, histVars>>

\* What the user may type as destination: nothing, the destination directory,
\* or the path of a regular file.
DestInputs == {"", DEST, NOTADIR}

\* Lines 190-215: one round of the destination loop. The round ends the
\* function (empty input), leaves the loop with dest_path set, or repeats.
DestPrompt ==
    /\ pc = "dest_prompt"
    /\ \E dest_dir \in DestInputs, raw \in RawAnswers, mkdirOK \in BOOLEAN :
         LET create == StripLower(raw)
             exists == dest_dir \in dirs \/ dest_dir = NOTADIR
             made == ~exists /\ create \in {"y", "yes"} /\ mkdirOK
             chosen == dest_dir # "" /\ (dest_dir \in dirs \/ made)
         IN  /\ asked' = asked \cup {"dest"} \cup
                           (IF dest_dir # "" /\ ~exists THEN {"create"} ELSE {})
             /\ dirs' = IF dest_dir # "" /\ made THEN dirs \cup {dest_dir} ELSE dirs
             /\ last' = [op |-> "dest_prompt", dest_dir |-> dest_dir]
             /\ IF dest_dir = ""
                THEN /\ pc' = "exit"
                     /\ exit_code' = 0
                     /\ stages' = Append(stages, "DONE")
                     /\ UNCHANGED dest_path
                ELSE IF chosen
                THEN /\ pc' = "move"
                     /\ dest_path' = dest_dir
                     /\ stages' = Append(stages, "RELOCATE")
                     /\ UNCHANGED exit_code
                ELSE UNCHANGED <<pc, exit_code, stages, dest_path>>
    /\ UNCHANGED <<fs, auto_delete, high_res_images, mv_i, moved_count, failed_count,
                   skipped_count, overwritten_count, overwrite_all>>
    /\ UNCHANGED <<scanVars, delVars, cleanVars, histVars>>

\* Lines 238-239: the destination file is the same image as the record
SameFile(f, dest_file, img) ==
    LET dest_resolution == get_image_resolution(f, dest_file)
    IN  /\ dest_resolution # NoRes
        /\ dest_resolution = <<img.width, img.height>>
        /\ f[dest_file].size = img.size

\* NoPromptNeeded with the flag never read
NoPromptNeeded_Never(flag) == FALSE

\* Line 245: the collision is settled without asking
NoPromptNeeded(flag) == flag

\* input() of the conflict prompt raised instead of returning an answer
EOF == "<EOF>"

\* MoveDecision with the overwrite-all test ahead of the duplicate test
MoveDecision_FlagFirst(f, dest, img, flag, answer, moveOK) ==
    LET dest_file == <<dest, name_of(img.path)>>
        existed == file_exists(f, dest_file)
        dup == existed /\ ~flag /\ SameFile(f, dest_file, img)
        prompted == existed /\ ~dup /\ ~NoPromptNeeded(flag)
        wants == IF ~existed THEN TRUE
                 ELSE IF dup THEN FALSE
                 ELSE IF NoPromptNeeded(flag) THEN TRUE
                 ELSE answer \in {"a", "y", "yes"}
        raised == (prompted /\ answer = EOF) \/ (wants /\ ~moveOK)
    IN  [ outcome   |-> IF raised THEN "failed" ELSE IF wants THEN "moved" ELSE "skipped",
          attempted |-> wants /\ ~(prompted /\ answer = EOF),
          existed   |-> existed,
          dup       |-> dup,
          prompted  |-> prompted,
          answer    |-> IF prompted THEN answer ELSE "",
          move_raised |-> wants /\ ~(prompted /\ answer = EOF) /\ ~moveOK,
          flag      |-> flag \/ (prompted /\ answer = "a") ]

\* Lines 233-278: what one iteration of the move loop does with record img,
\* given the sticky flag, the answer a prompt would get and whether
\* shutil.move would succeed: the outcome, whether the prompt was shown,
\* whether an existing destination file was replaced, and the flag afterwards.
MoveDecision(f, dest, img, flag, answer, moveOK) ==
    LET dest_file == <<dest, name_of(img.path)>>
        existed == file_exists(f, dest_file)
        dup == existed /\ SameFile(f, dest_file, img)
        prompted == existed /\ ~dup /\ ~NoPromptNeeded(flag)
        wants == IF ~existed THEN TRUE
                 ELSE IF dup THEN FALSE
                 ELSE IF NoPromptNeeded(flag) THEN TRUE
                 ELSE answer \in {"a", "y", "yes"}
        raised == (prompted /\ answer = EOF) \/ (wants /\ ~moveOK)
    IN  [ outcome   |-> IF raised THEN "failed" ELSE IF wants THEN "moved" ELSE "skipped",
          attempted |-> wants /\ ~(prompted /\ answer = EOF),
          existed   |-> existed,
          dup       |-> dup,
          prompted  |-> prompted,
          answer    |-> IF prompted THEN answer ELSE "",
          move_raised |-> wants /\ ~(prompted /\ answer = EOF) /\ ~moveOK,
          flag      |-> flag \/ (prompted /\ answer = "a") ]

\* Counts with moved_count raised ahead of shutil.move
Counts_BeforeMove(d) ==
    [ moved   |-> IF d.attempted THEN 1 ELSE 0,
      over    |-> IF d.attempted /\ d.existed THEN 1 ELSE 0,
      skipped |-> IF d.outcome = "skipped" THEN 1 ELSE 0,
      failed  |-> IF d.outcome = "failed" THEN 1 ELSE 0 ]

\* Lines 241-277: what one iteration adds to the four counters. moved_count and
\* overwritten_count are raised after shutil.move returned, failed_count in the
\* except branch.
Counts(d) ==
    [ moved   |-> IF d.outcome = "moved" THEN 1 ELSE 0,
      over    |-> IF d.outcome = "moved" /\ d.existed THEN 1 ELSE 0,
      skipped |-> IF d.outcome = "skipped" THEN 1 ELSE 0,
      failed  |-> IF d.outcome = "failed" THEN 1 ELSE 0 ]

\* shutil.move(source_file, dest_file) that succeeded: rename over the target
Moved(f, source_file, dest_file) == With(Without(f, source_file), dest_file, f[source_file])

\* One iteration of the move loop.
MoveStep ==
    /\ pc = "move"
    /\ mv_i <= Len(high_res_images)
    /\ \E raw \in RawAnswers \cup {EOF}, moveOK \in BOOLEAN :
         LET img == high_res_images[mv_i]
             source_file == img.path
             dest_file == <<dest_path, name_of(source_file)>>
             answer == StripLower(raw)
             d == MoveDecision(fs, dest_path, img, overwrite_all, answer, moveOK)
         IN  /\ moveOK => file_exists(fs, source_file)
             /\ fs' = IF d.outcome = "moved" THEN Moved(fs, source_file, dest_file) ELSE fs
             /\ moved_count' = moved_count + Counts(d).moved
             /\ overwritten_count' = overwritten_count + Counts(d).over
             /\ skipped_count' = skipped_count + Counts(d).skipped
             /\ failed_count' = failed_count + Counts(d).failed
             /\ overwrite_all' = d.flag
             /\ asked' = IF d.prompted THEN asked \cup {"conflict"} ELSE asked
             /\ last' = [op |-> "move", rec |-> img, d |-> d, flagBefore |-> overwrite_all,
                         destBefore |-> IF d.existed THEN fs[dest_file] ELSE Corrupt]
    /\ mv_i' = mv_i + 1
    /\ UNCHANGED <<dirs, pc, exit_code, auto_delete, high_res_images, dest_path, stages>>
    /\ UNCHANGED <<scanVars, delVars, cleanVars, histVars>>

\* The move loop is over: the clean-up loop starts.
MoveDone ==
    /\ pc = "move"
    /\ mv_i > Len(high_res_images)
    /\ pc' = "cleanup"
    /\ last' = [op |-> "move_done"]
    /\ UNCHANGED <<fs, dirs, exit_code, auto_delete, high_res_images, asked, stages>>
    /\ UNCHANGED <<scanVars, delVars, moveVars, cleanVars, histVars>>

\* not any(parent_dir.iterdir()): no file and no subdirectory in d
IsEmptyDir(f, ds, d) ==
    /\ \A p \in DOMAIN f : dir_of(p) # d
    /\ \A c \in ds : Parent(c) # d

\* CleanCandidate without the comparison with the scan root
CleanCandidate_AnyDir(ds, parent_dir, source_dir) == parent_dir \in ds

\* Line 285: the directories the clean-up looks at
CleanCandidate(ds, parent_dir, source_dir) == parent_dir # source_dir /\ parent_dir \in ds

\* Lines 283-293: one iteration of the clean-up loop. rmdir on an empty
\* directory succeeds or raises (rmOK = FALSE); the bare except ignores it.
CleanStep ==
    /\ pc = "cleanup"
    /\ cl_i <= Len(high_res_images)
    /\ \E rmOK \in BOOLEAN :
         LET parent_dir == dir_of(high_res_images[cl_i].path)
             tried == CleanCandidate(dirs, parent_dir, ROOT) /\ IsEmptyDir(fs, dirs, parent_dir)
             removed == tried /\ rmOK
         IN  /\ dirs' = IF removed THEN dirs \ {parent_dir} ELSE dirs
             /\ cleaned_dirs' = IF removed /\ parent_dir \notin Range(cleaned_dirs)
                                 THEN Append(cleaned_dirs, parent_dir) ELSE cleaned_dirs
             /\ rm_failed' = IF tried /\ ~rmOK THEN rm_failed \cup {parent_dir} ELSE rm_failed
             /\ last' = [op |-> "clean", dir |-> parent_dir, tried |-> tried,
                         removed |-> removed]
    /\ cl_i' = cl_i + 1
    /\ UNCHANGED <<fs, pc, exit_code, auto_delete, high_res_images, asked, stages>>
    /\ UNCHANGED <<scanVars, delVars, moveVars, histVars>>

\* The clean-up is over: move_high_res_images returns and main returns 0.
CleanDone ==
    /\ pc = "cleanup"
    /\ cl_i > Len(high_res_images)
    /\ pc' = "exit"
    /\ exit_code' = 0
    /\ stages' = Append(stages, "DONE")
    /\ last' = [op |-> "clean_done"]
    /\ UNCHANGED <<fs, dirs, auto_delete, high_res_images, asked>>
    /\ UNCHANGED <<scanVars, delVars, moveVars, cleanVars, histVars>>

\* Lines 367-374: input() of one of main's own prompts is interrupted or hits
\* end of input; nothing below __main__ catches it and the process exits with 1.
PromptInterrupted ==
    /\ pc \in {"confirm_delete", "confirm_move", "dest_prompt"}
    /\ pc' = "exit"
    /\ exit_code' = 1
    /\ last' = [op |-> "interrupted"]
    /\ UNCHANGED <<fs, dirs, auto_delete, high_res_images, asked, stages>>
    /\ UNCHANGED <<scanVars, delVars, moveVars, cleanVars, histVars>>

Next ==
    \/ Collect
    \/ ScanStep
    \/ ScanStatFails
    \/ ScanDone
    \/ DisplayResults
    \/ ConfirmDelete
    \/ DeleteStep
    \/ DeleteDone
    \/ ConfirmMove
    \/ DestPrompt
    \/ MoveStep
    \/ MoveDone
    \/ CleanStep
    \/ CleanDone
    \/ PromptInterrupted

Spec == Init /\ [][Next]_vars

SpecScan == InitScan /\ [][Next]_vars

----------------------------------------------------------------------------
(* Properties *)

\* C1: every image whose dimensions the scan read is in all_images with those
\* dimensions, and it is in low_res_images if and only if its width is below
\* 3840 or its height is below 2160 (3840x2160 is not, 3840x2159, 3839x2160
\* and 4000x1000 are).
C1_Classification ==
    /\ \A k \in 1..(scan_i - 1) :
         (k <= Len(image_files) /\ fs0[image_files[k]].res # <<>>) =>
            \E i \in DOMAIN all_images :
                /\ all_images[i].path = image_files[k]
                /\ <<all_images[i].width, all_images[i].height>> = fs0[image_files[k]].res
    /\ \A j \in DOMAIN low_res_images :
         \E i \in DOMAIN all_images : all_images[i] = low_res_images[j]
    /\ \A i \in DOMAIN all_images :
         (\E j \in DOMAIN low_res_images : low_res_images[j] = all_images[i])
            <=> (all_images[i].width < 3840 \/ all_images[i].height < 2160)

\* The scan has ended with a 3840x2160 image outside the low-res list and a
\* 4000x1000 image inside it.
C1_Witness ==
    /\ pc = "report"
    /\ \E i \in DOMAIN all_images :
         /\ all_images[i].width = 3840 /\ all_images[i].height = 2160
         /\ \A j \in DOMAIN low_res_images : low_res_images[j] # all_images[i]
    /\ \E j \in DOMAIN low_res_images :
         low_res_images[j].width = 4000 /\ low_res_images[j].height = 1000

\* C2: delete_images calls unlink once on every record of its input, in the
\* order of the list and whatever failed before, and returns exactly the
\* records whose unlink succeeded; deleted_count is the number of successful
\* unlinks and a record whose unlink raised is not in the list.
C2_DeletedAreUnlinked ==
    LET Ok(e) == e[2]
        okLog == SelectSeq(unlink_log, Ok)
        oks == { i \in DOMAIN unlink_log : unlink_log[i][2] }
    IN  /\ Len(unlink_log) = del_i - 1
        /\ \A i \in DOMAIN unlink_log :
             i <= Len(low_res_images) /\ unlink_log[i][1] = low_res_images[i]
        /\ (pc \notin {"start", "scan", "report", "confirm_delete", "delete"}
              /\ \E i \in DOMAIN stages : stages[i] = "DELETE")
             => Len(unlink_log) = Len(low_res_images)
        /\ Len(deleted_images) = Len(okLog)
        /\ \A i \in DOMAIN deleted_images : deleted_images[i] = okLog[i][1]
        /\ deleted_count = Cardinality(oks)
        /\ del_failed_count = Len(unlink_log) - Cardinality(oks)
        /\ \A i \in DOMAIN unlink_log :
             /\ unlink_log[i][2] => unlink_log[i][1].path \notin DOMAIN fs
             /\ ~unlink_log[i][2] =>
                   \A j \in DOMAIN deleted_images : deleted_images[j] # unlink_log[i][1]

\* delete_images has returned after a first unlink that raised and a second
\* one that succeeded.
C2_Witness ==
    /\ pc = "confirm_move"
    /\ Len(unlink_log) >= 2
    /\ ~unlink_log[1][2]
    /\ unlink_log[2][2]
    /\ Len(deleted_images) = 1

\* C3: an iteration of the move loop whose destination file exists with the
\* dimensions and the size recorded for the source changes no file (the
\* destination is not overwritten, the source stays), shows no prompt, and
\* adds exactly 1 to skipped_count and nothing to the other counters, whether
\* or not the overwrite-all flag is set.
C3_DuplicateSkipped ==
    [][ (pc = "move" /\ mv_i <= Len(high_res_images) /\ mv_i' = mv_i + 1) =>
          LET img == high_res_images[mv_i]
              dest_file == <<dest_path, img.path[2]>>
          IN  ( /\ dest_file \in DOMAIN fs
                /\ fs[dest_file].res = <<img.width, img.height>>
                /\ fs[dest_file].size = img.size )
              => /\ fs' = fs
                 /\ skipped_count' = skipped_count + 1
                 /\ moved_count' = moved_count
                 /\ overwritten_count' = overwritten_count
                 /\ failed_count' = failed_count
                 /\ asked' = asked
                 /\ ~last'.d.prompted
                 /\ overwrite_all' = overwrite_all ]_vars

\* A duplicate was skipped while the overwrite-all flag was already set and
\* an earlier record had been moved over a destination file.
C3_Witness ==
    /\ last.op = "move"
    /\ last.flagBefore
    /\ last.d.existed
    /\ last.destBefore.res = <<last.rec.width, last.rec.height>>
    /\ last.destBefore.size = last.rec.size
    /\ last.d.outcome = "skipped"
    /\ overwritten_count >= 1
    /\ last.rec.path \in DOMAIN fs

\* C4 as stated: once the clean-up has run, no subdirectory of the tree that
\* held a file when the program started is left empty, unless its rmdir raised.
C4_EveryEmptiedDirRemoved ==
    last.op = "clean_done" =>
        \A d \in (dirs \cap SrcDirs) \ {"root"} :
            ( /\ \E p \in DOMAIN fs0 : p[1] = d
              /\ d \notin rm_failed )
            => ( \/ \E p \in DOMAIN fs : p[1] = d
                 \/ \E c \in dirs : Parent(c) = d )

\* C4 amended: an iteration of the clean-up loop looks only at the parent
\* directory of its record; it removes that directory if it is not the scan
\* root and holds no file and no directory at that moment, unless rmdir
\* raises, which is ignored; it touches no other directory and no file, and
\* the loop goes on. The scan root is never removed, and no directory of the
\* tree is removed outside the clean-up.
C4_CleanupRemovesVisitedEmptyDirs ==
    /\ []("root" \in dirs)
    /\ [][ pc # "cleanup" => (dirs' \cap SrcDirs) = (dirs \cap SrcDirs) ]_vars
    /\ [][ (pc = "cleanup" /\ cl_i <= Len(high_res_images) /\ cl_i' = cl_i + 1) =>
             LET d == high_res_images[cl_i].path[1]
                 empty == /\ \A p \in DOMAIN fs : p[1] # d
                          /\ \A c \in dirs : Parent(c) # d
             IN  /\ fs' = fs
                 /\ pc' = "cleanup"
                 /\ dirs' \subseteq dirs
                 /\ (dirs \ dirs') \subseteq {d}
                 /\ d \in (dirs \ dirs') => (d # "root" /\ empty)
                 /\ (d # "root" /\ d \in dirs /\ empty) =>
                        (d \notin dirs' \/ d \in rm_failed') ]_vars

\* The clean-up has ended: root/A/B was removed, root/A was visited while it
\* still held root/A/B and is left empty, and the root, which holds no file
\* any more, is still there.
C4_Witness ==
    /\ last.op = "clean_done"
    /\ "root/A/B" \in dirs0 /\ "root/A/B" \notin dirs
    /\ "root/A" \in dirs /\ "root/A" \notin rm_failed
    /\ \E i \in DOMAIN high_res_images : high_res_images[i].path[1] = "root/A"
    /\ \A p \in DOMAIN fs : p[1] \notin {"root", "root/A"}
    /\ "root" \in dirs

\* The place of a stage in SCAN, REPORT, CONFIRM_DELETE, DELETE, CONFIRM_MOVE,
\* RELOCATE, DONE
StageRank(st) == CASE st = "SCAN" -> 1 [] st = "REPORT" -> 2 [] st = "CONFIRM_DELETE" -> 3
                   [] st = "DELETE" -> 4 [] st = "CONFIRM_MOVE" -> 5 [] st = "RELOCATE" -> 6
                   [] OTHER -> 7

Entered(st) == \E i \in DOMAIN stages : stages[i] = st

\* The files and directories are those the program started with
Untouched == fs = fs0 /\ dirs = dirs0

\* The parts of C5 that do not depend on when the move confirmation is shown:
\* the stages are entered in the order of the list; with no low-res image the
\* run ends after REPORT with no prompt and no change; nothing is moved before
\* the delete loop has ended; --auto-delete skips the delete confirmation and
\* never the move confirmation.
C5_Order ==
    /\ \A i, j \in DOMAIN stages : i < j => StageRank(stages[i]) < StageRank(stages[j])
    /\ (Entered("REPORT") /\ low_res_images = <<>> /\ pc # "report") =>
            /\ stages = <<"SCAN", "REPORT", "DONE">>
            /\ asked = {}
            /\ Untouched
            /\ exit_code = 0
    /\ ~Entered("RELOCATE") =>
            /\ moved_count = 0
            /\ \A p \in DOMAIN fs : p \in DOMAIN fs0 /\ fs[p] = fs0[p]
    /\ Entered("RELOCATE") =>
            /\ Entered("DELETE")
            /\ Len(unlink_log) = Len(low_res_images)
            /\ "move" \in asked
    /\ Entered("DELETE") => (auto_delete <=> "delete" \notin asked)
    /\ auto_delete => ~Entered("CONFIRM_DELETE")
    /\ (~auto_delete /\ Entered("DELETE")) => Entered("CONFIRM_DELETE")

\* C5 as stated: once the delete loop has ended, the move confirmation is
\* shown if any image was deleted.
C5_MoveOfferedIfAnyDeleted ==
    (Entered("DELETE") /\ Len(unlink_log) = Len(low_res_images) /\ pc # "delete"
       /\ deleted_images # <<>>)
    => Entered("CONFIRM_MOVE")

\* C5 amended: the stages are entered only in the order SCAN, REPORT,
\* CONFIRM_DELETE, DELETE, CONFIRM_MOVE, RELOCATE, DONE (C5_Order), and after
\* DELETE the move confirmation is shown if and only if at least one image was
\* deleted and at least one scanned image was not deleted.
C5_OrderAndMoveOffer ==
    /\ C5_Order
    /\ (Entered("DELETE") /\ Len(unlink_log) = Len(low_res_images) /\ pc # "delete") =>
          ( Entered("CONFIRM_MOVE") <=>
              ( /\ deleted_images # <<>>
                /\ \E i \in DOMAIN all_images :
                     \A j \in DOMAIN deleted_images :
                        deleted_images[j].path # all_images[i].path ) )
    /\ Entered("CONFIRM_MOVE") =>
          (high_res_images # <<>> /\ Entered("DELETE") /\ Len(unlink_log) = Len(low_res_images))
    /\ ~Entered("DELETE") => ~Entered("CONFIRM_MOVE")

\* Under --auto-delete the run went through DELETE without a delete
\* confirmation, asked the move confirmation and reached the end of the
\* relocation.
C5_Witness ==
    /\ auto_delete
    /\ stages = <<"SCAN", "REPORT", "DELETE", "CONFIRM_MOVE", "RELOCATE", "DONE">>
    /\ asked = {"move", "dest"}
    /\ moved_count >= 1

\* One iteration of the move loop is taken
MoveIteration == pc = "move" /\ mv_i <= Len(high_res_images) /\ mv_i' = mv_i + 1

\* C6: the flag is false when the move loop starts and, once set, stays set.
\* On a record whose name collides with a destination file that is not a
\* duplicate: with the flag set there is no prompt and the file is moved over
\* the destination file; with the flag clear the prompt is shown, and "a" sets
\* the flag and moves the file, "y"/"yes" moves the file and leaves the flag
\* clear, any other answer skips the file and changes no file. A move is
\* counted as failed, and changes no file, exactly when shutil.move (or the
\* reading of the answer) raised.
C6_StickyOverwriteAll ==
    /\ [](mv_i = 1 => ~overwrite_all)
    /\ [][overwrite_all => overwrite_all']_vars
    /\ [][ MoveIteration =>
             LET img == high_res_images[mv_i]
                 src == img.path
                 dst == <<dest_path, src[2]>>
                 collides == /\ dst \in DOMAIN fs
                             /\ ~(fs[dst].res = <<img.width, img.height>>
                                    /\ fs[dst].size = img.size)
                 over == IF last'.d.move_raised
                         THEN /\ fs' = fs
                              /\ failed_count' = failed_count + 1
                              /\ moved_count' = moved_count
                              /\ overwritten_count' = overwritten_count
                         ELSE /\ src \notin DOMAIN fs'
                              /\ dst \in DOMAIN fs' /\ fs'[dst] = fs[src]
                              /\ \A q \in DOMAIN fs \ {src, dst} :
                                    q \in DOMAIN fs' /\ fs'[q] = fs[q]
                              /\ moved_count' = moved_count + 1
                              /\ overwritten_count' = overwritten_count + 1
                              /\ failed_count' = failed_count
                 answer == last'.d.answer
             IN  collides =>
                   IF overwrite_all
                   THEN ~last'.d.prompted /\ asked' = asked /\ over
                   ELSE /\ last'.d.prompted
                        /\ "conflict" \in asked'
                        /\ IF answer = "a" THEN overwrite_all' /\ over
                           ELSE IF answer \in {"y", "yes"} THEN ~overwrite_all' /\ over
                           ELSE IF answer = EOF
                           THEN ~overwrite_all' /\ fs' = fs /\ failed_count' = failed_count + 1
                           ELSE ~overwrite_all' /\ fs' = fs
                                /\ skipped_count' = skipped_count + 1 ]_vars

\* After an "a" answer moved one file over the destination file, a later
\* record that collided with a different destination file was moved over it
\* with no prompt.
C6_Witness ==
    /\ last.op = "move"
    /\ last.flagBefore
    /\ last.d.existed /\ ~last.d.dup
    /\ ~last.d.prompted
    /\ last.d.outcome = "moved"
    /\ overwritten_count = 2
    /\ fs[<<dest_path, last.rec.path[2]>>].size = last.rec.size
    /\ last.destBefore.size # last.rec.size

\* C7 as stated: a failure on one item never ends the batch it belongs to; the
\* loop that hit an unreadable image, an image that vanished, a failed unlink,
\* a failed move or a failed rmdir is still running afterwards.
C7_ItemFailuresAreIsolated ==
    /\ (last.op = "scan" /\ ~last.read) => (pc = "scan" /\ exit_code = -1)
    /\ last.op = "scan_crash" => (pc = "scan" /\ exit_code = -1)
    /\ (last.op = "unlink" /\ ~last.ok) => (pc = "delete" /\ exit_code = -1)
    /\ (last.op = "move" /\ last.d.outcome = "failed") => (pc = "move" /\ exit_code = -1)
    /\ (last.op = "clean" /\ last.tried /\ ~last.removed) =>
          (pc = "cleanup" /\ exit_code = -1)

\* The rest of C7, without the image that vanishes during the scan
C7_OtherFailuresAreIsolated ==
    /\ (last.op = "scan" /\ ~last.read) => (pc = "scan" /\ exit_code = -1)
    /\ (last.op = "unlink" /\ ~last.ok) => (pc = "delete" /\ exit_code = -1)
    /\ (last.op = "move" /\ last.d.outcome = "failed") =>
          (pc = "move" /\ exit_code = -1 /\ failed_count >= 1)
    /\ (last.op = "clean" /\ last.tried /\ ~last.removed) =>
          (pc = "cleanup" /\ exit_code = -1)
    /\ (pc \in {"report", "confirm_delete", "delete", "confirm_move", "dest_prompt",
               "move", "cleanup"}) => scan_i = Len(image_files) + 1
    /\ (pc \in {"confirm_move", "dest_prompt", "move", "cleanup"}) =>
          del_i = Len(low_res_images) + 1
    /\ pc = "cleanup" => mv_i = Len(high_res_images) + 1
    /\ last.op = "clean_done" => cl_i = Len(high_res_images) + 1

\* No file was moved, created or changed since the program started, every
\* remaining image is where it was, and no directory was created or removed.
NothingRelocated ==
    /\ dirs = dirs0
    /\ moved_count = 0
    /\ \A p \in DOMAIN fs : p \in DOMAIN fs0 /\ fs[p] = fs0[p]
    /\ \A i \in DOMAIN high_res_images :
         /\ high_res_images[i].path \in DOMAIN fs
         /\ fs[high_res_images[i].path] = fs0[high_res_images[i].path]

\* C8: n, no or the empty answer at the delete confirmation ends the run with
\* exit code 0 and nothing deleted, moved, created or removed; another answer
\* that is not y/yes asks again and changes nothing; an answer other than
\* y/yes at the move confirmation, or an empty destination path, ends the run
\* with exit code 0, every remaining file in place and no directory created or
\* removed. Nothing runs after the end.
C8_DeclinedStepsDoNotRun ==
    /\ [][pc # "exit"]_vars
    /\ []( last.op = "confirm_delete" =>
             IF last.response \in {"n", "no", ""}
             THEN /\ pc = "exit" /\ exit_code = 0
                  /\ Untouched
                  /\ unlink_log = <<>> /\ deleted_images = <<>>
                  /\ moved_count = 0
             ELSE IF last.response \in {"y", "yes"}
             THEN pc = "delete"
             ELSE pc = "confirm_delete" /\ exit_code = -1 /\ Untouched )
    /\ []( (last.op = "confirm_move" /\ last.response \notin {"y", "yes"}) =>
             (pc = "exit" /\ exit_code = 0 /\ NothingRelocated) )
    /\ []( (last.op = "dest_prompt" /\ last.dest_dir = "") =>
             (pc = "exit" /\ exit_code = 0 /\ NothingRelocated) )

\* After a deletion that removed a file, the move confirmation was answered
\* "n" and the run is over.
C8_Witness ==
    /\ last.op = "confirm_move"
    /\ last.response = "n"
    /\ deleted_images # <<>>
    /\ high_res_images # <<>>
    /\ pc = "exit"

\* C9 as stated: every record handed to the relocation is at least 3840 wide
\* and 2160 high, and no file below that was moved to the destination.
C9_OnlyHighResRelocated ==
    /\ \A i \in DOMAIN high_res_images :
         high_res_images[i].width >= 3840 /\ high_res_images[i].height >= 2160
    /\ \A p \in DOMAIN fs :
         (p[1] = DEST /\ (p \notin DOMAIN fs0 \/ fs0[p] # fs[p]))
            => (fs[p].res[1] >= 3840 /\ fs[p].res[2] >= 2160)

\* C10: in the move loop moved_count + skipped_count + failed_count is the
\* number of records processed and overwritten_count <= moved_count; every
\* iteration adds 1 to exactly one of the three counters, and
\* overwritten_count grows only in an iteration whose destination file
\* existed, for every answer, failed move and failed reading of an answer.
C10_OneOutcomePerRecord ==
    /\ []( /\ moved_count + skipped_count + failed_count = mv_i - 1
           /\ mv_i - 1 <= Len(high_res_images)
           /\ overwritten_count <= moved_count )
    /\ [][ MoveIteration =>
             /\ moved_count' \in {moved_count, moved_count + 1}
             /\ skipped_count' \in {skipped_count, skipped_count + 1}
             /\ failed_count' \in {failed_count, failed_count + 1}
             /\ overwritten_count' \in {overwritten_count, overwritten_count + 1} ]_vars
    /\ [][ overwritten_count' # overwritten_count =>
             /\ MoveIteration
             /\ <<dest_path, high_res_images[mv_i].path[2]>> \in DOMAIN fs
             /\ moved_count' = moved_count + 1 ]_vars

\* Two records were processed: one was moved over an existing destination
\* file, the other failed because reading the answer of its prompt raised.
C10_Witness ==
    /\ last.op = "move"
    /\ last.d.prompted /\ last.d.answer = EOF
    /\ mv_i = 3
    /\ moved_count = 1 /\ overwritten_count = 1
    /\ failed_count = 1 /\ skipped_count = 0

====
